---- MODULE Spec2Model ----
(***************************************************************************)
(* Domain (src/domain/mod.rs): attributes that share one logical clock.    *)
(*                                                                         *)
(* The Domain owns now_at, the name -> InputSession table and the          *)
(* name -> CollectionIndex tables forward and reverse.  What its calls do  *)
(* inside the dataflow (the timely input handle behind each InputSession,  *)
(* the collection each index is built on) is kept in the variable scope.   *)
(* Timestamps are the naturals 0..MaxTime, T::minimum() is 0.              *)
(*                                                                         *)
(* InputSession is differential-dataflow's: update() buffers a change at   *)
(* the session's time, advance_to() moves that time, flush() sends the     *)
(* buffer and moves the timely handle up to the session's time, and a      *)
(* dropped session flushes before its handle closes the input.  update()   *)
(* also sends a buffer that has reached its capacity of 1024 changes, which*)
(* the batches here never reach.  An update reaches the indices once the   *)
(* frontier of its input has passed its time.                              *)
(***************************************************************************)
EXTENDS Integers, Sequences, FiniteSets, TLC

\* ---------------------------------------------------------------- bounds
\* The largest timestamp, the longest batch, and the most updates the inputs
\* hold at once (buffered, or sent and not cancelled), and the most they hold
\* in a Domain of one attribute.
MaxTime == 1
MaxBatch == 2
MaxUpdates == 2
MaxHeld == 3

\* ------------------------------------------------------------ value sets
Names == {"a", "b"}
Entities == {1}
Values == {[tag |-> "Number", val |-> 30]}
Ops == {-1, 1}
Times == 0..MaxTime

\* Option::None for the Option<T> / Option<usize> arguments.
None == -1

\* T::minimum(), the time of a freshly made timely input handle.
Minimum == 0

\* Value::Eid(e)
Eid(e) == [tag |-> "Eid", val |-> e]

\* TxData(op, e, a, v)
TxData == [op : Ops, e : Entities, a : Names, v : Values]

RECURSIVE SeqsUpTo(_, _)
SeqsUpTo(S, n) ==
    IF n = 0 THEN {<<>>}
    ELSE LET shorter == SeqsUpTo(S, n - 1)
         IN  shorter \cup {Append(s, x) : s \in {t \in shorter : Len(t) = n - 1}, x \in S}

Batches == SeqsUpTo(TxData, MaxBatch)

\* The external datoms stream handed to create_source:
\* (discriminant, ((e, v), time, diff)) records.
Datoms ==
    << [idx |-> 0, data |-> <<Eid(1), [tag |-> "Number", val |-> 30]>>, time |-> 0, diff |-> 1],
       [idx |-> 1, data |-> <<Eid(1), [tag |-> "Number", val |-> 31]>>, time |-> 0, diff |-> 1],
       [idx |-> 0, data |-> <<Eid(1), [tag |-> "Number", val |-> 31]>>, time |-> 1, diff |-> 1] >>

Selectors == {None, 0, 1}

\* The trace_next argument of advance_to: None, or Some of any T, which the
\* caller may pick ahead of every next.
TraceNexts == {None} \cup (0..(MaxTime + 1))

VARIABLES
    now_at,          \* Domain.now_at
    input_sessions,  \* Domain.input_sessions : name -> [time, buffer]
    forward,         \* Domain.forward : name -> index handle
    reverse,         \* Domain.reverse : name -> index handle
    scope,           \* the collections built in the dataflow scope, by name
    op,              \* the method called last
    ret,             \* what it returned
    tx,              \* the batch it was given, when it is transact
    adv              \* the clock it found and whether it was given a trace_next,
                     \* when it is advance_to

vars == <<now_at, input_sessions, forward, reverse, scope, op, ret, tx, adv>>
domain == <<now_at, input_sessions, forward, reverse, scope>>

\* ------------------------------------------------------------- HashMap
EmptyMap == [x \in {} |-> x]
Insert(map, k, v) == [x \in (DOMAIN map) \cup {k} |-> IF x = k THEN v ELSE map[x]]
\* A lookup in place of the removal.
RemoveKeeps(map, k) == map

Remove(map, k) == [x \in (DOMAIN map) \ {k} |-> map[x]]

\* ------------------------------------------------------------- results
\* Ok(()), Err(Error {category, message}), the &T of time(), and the outcome
\* of a failed assert!.
Ok == [category |-> "ok", message |-> <<>>, value |-> None]
Err(category, message) == [category |-> category, message |-> message, value |-> None]
Panic == [category |-> "panic", message |-> <<>>, value |-> None]

\* ------------------------------------------- InputSession and its handle
\* scope.new_collection(): the session starts at the time of a new timely
\* handle, T::minimum(), with an empty buffer; the collection is open and
\* holds nothing.
NewSession == [time |-> Minimum, buffer |-> <<>>]
NewCollection == [kind |-> "input", epoch |-> Minimum, sent |-> {}, closed |-> FALSE]

\* handle.update(element, change): buffers the change at the session's time.
SessionUpdate(s, element, change) ==
    [s EXCEPT !.buffer = Append(@, [data |-> element, time |-> s.time, diff |-> change])]

\* The session left at its time.
SessionAdvanceToStays(s, next) == s

\* handle.advance_to(next): moves the session's time.
SessionAdvanceTo(s, next) == [s EXCEPT !.time = next]

\* send_batch: the collection takes the updates of the buffer one by one; it
\* keeps them consolidated, one net diff per (data, time), none when it is 0.
Consolidate(sent, u) ==
    LET same == {x \in sent : x.data = u.data /\ x.time = u.time}
        net == IF same = {} THEN u.diff ELSE (CHOOSE x \in same : TRUE).diff + u.diff
    IN  (sent \ same) \cup (IF net = 0 THEN {} ELSE {[u EXCEPT !.diff = net]})

RECURSIVE SendBatch(_, _)
SendBatch(sent, buffer) ==
    IF buffer = <<>> THEN sent
    ELSE SendBatch(Consolidate(sent, Head(buffer)), Tail(buffer))

\* handle.flush(): sends the buffer into the collection and moves the timely
\* handle up to the session's time.
FlushCollection(s, c) ==
    [c EXCEPT !.sent = SendBatch(@, s.buffer),
              !.epoch = IF @ < s.time THEN s.time ELSE @]
FlushSession(s) == [s EXCEPT !.buffer = <<>>]

\* handle.close(): the session is dropped, which flushes it, and the timely
\* handle is dropped, which closes the input.
CloseCollection(s, c) == [FlushCollection(s, c) EXCEPT !.closed = TRUE]

\* ---------------------------------------------------- CollectionIndex
\* CollectionIndex::index(name, collection): a handle on the index of the
\* collection of that name by key e or by key v, with all history retained;
\* advance_by moves the frontier of the history it retains.
Index(name, key) == [name |-> name, key |-> key, since |-> Minimum]
AdvanceBy(index, frontier) == [index EXCEPT !.since = frontier]

\* ------------------------------------------------------- create_source
\* The map without the filter: every record, whatever name_idx is.
RECURSIVE SelectEvery(_, _)
SelectEvery(datoms, name_idx) ==
    IF datoms = <<>> THEN <<>>
    ELSE LET d == Head(datoms)
         IN  <<[data |-> d.data, time |-> d.time, diff |-> d.diff]>>
                 \o SelectEvery(Tail(datoms), name_idx)

\* datoms.filter(idx == name_idx).map(tuple), or datoms.map(tuple).
RECURSIVE SelectDatoms(_, _)
SelectDatoms(datoms, name_idx) ==
    IF datoms = <<>> THEN <<>>
    ELSE LET d == Head(datoms)
             rest == SelectDatoms(Tail(datoms), name_idx)
             tuple == [data |-> d.data, time |-> d.time, diff |-> d.diff]
         IN  IF name_idx = None \/ d.idx = name_idx THEN <<tuple>> \o rest ELSE rest

\* The collection of a source: the selected datoms, as_collection(). The
\* stream is taken as delivered in full.
SourceCollection(name_idx) ==
    [kind |-> "source", epoch |-> Minimum, sent |-> SendBatch({}, SelectDatoms(Datoms, name_idx)),
     closed |-> TRUE]

\* ------------------------------------------------------------- actions
Init ==
    /\ now_at \in Times
    /\ input_sessions = EmptyMap
    /\ forward = EmptyMap
    /\ reverse = EmptyMap
    /\ scope = EmptyMap
    /\ op = "new"
    /\ ret = Ok
    /\ tx = <<>>
    /\ adv = <<>>

\* create_attribute that indexes tuples twice, without the map to (v, e).
CreateAttributeUnswapped(name) ==
    /\ op' = "create_attribute"
    /\ tx' = <<>>
    /\ adv' = <<>>
    /\ IF name \in DOMAIN forward
       THEN /\ ret' = Err("conflict", <<"An attribute of name ", name, " already exists.">>)
            /\ UNCHANGED domain
       ELSE /\ scope' = Insert(scope, name, NewCollection)
            /\ forward' = Insert(forward, name, Index(name, "e"))
            /\ reverse' = Insert(reverse, name, Index(name, "e"))
            /\ input_sessions' = Insert(input_sessions, name, NewSession)
            /\ ret' = Ok
            /\ UNCHANGED now_at

\* The check made on the input sessions in place of the indices.
ExistsInput(name) == name \in DOMAIN input_sessions

\* self.forward.contains_key(name)
Exists(name) == name \in DOMAIN forward

CreateAttribute(name) ==
    /\ op' = "create_attribute"
    /\ tx' = <<>>
    /\ adv' = <<>>
    /\ IF Exists(name)
       THEN /\ ret' = Err("conflict", <<"An attribute of name ", name, " already exists.">>)
            /\ UNCHANGED domain
       ELSE /\ scope' = Insert(scope, name, NewCollection)
            /\ forward' = Insert(forward, name, Index(name, "e"))
            /\ reverse' = Insert(reverse, name, Index(name, "v"))
            /\ input_sessions' = Insert(input_sessions, name, NewSession)
            /\ ret' = Ok
            /\ UNCHANGED now_at

\* create_source that keeps an input session for the attribute too.
CreateSourceWritable(name, name_idx) ==
    /\ op' = "create_source"
    /\ tx' = <<>>
    /\ adv' = <<>>
    /\ IF name \in DOMAIN forward
       THEN /\ ret' = Err("conflict", <<"An attribute of name ", name, " already exists.">>)
            /\ UNCHANGED domain
       ELSE /\ scope' = Insert(scope, name, SourceCollection(name_idx))
            /\ forward' = Insert(forward, name, Index(name, "e"))
            /\ reverse' = Insert(reverse, name, Index(name, "v"))
            /\ input_sessions' = Insert(input_sessions, name, NewSession)
            /\ ret' = Ok
            /\ UNCHANGED now_at

CreateSource(name, name_idx) ==
    /\ op' = "create_source"
    /\ tx' = <<>>
    /\ adv' = <<>>
    /\ IF Exists(name)
       THEN /\ ret' = Err("conflict", <<"An attribute of name ", name, " already exists.">>)
            /\ UNCHANGED domain
       ELSE /\ scope' = Insert(scope, name, SourceCollection(name_idx))
            /\ forward' = Insert(forward, name, Index(name, "e"))
            /\ reverse' = Insert(reverse, name, Index(name, "v"))
            /\ ret' = Ok
            /\ UNCHANGED <<now_at, input_sessions>>

\* The loop with `continue` in place of the early return.
RECURSIVE TransactLoopSkipping(_, _, _)
TransactLoopSkipping(sessions, tx_data, i) ==
    IF i > Len(tx_data)
    THEN [sessions |-> sessions, ret |-> Ok]
    ELSE LET r == tx_data[i]
         IN  IF r.a \notin DOMAIN sessions
             THEN TransactLoopSkipping(sessions, tx_data, i + 1)
             ELSE TransactLoopSkipping(
                      [sessions EXCEPT ![r.a] = SessionUpdate(@, <<Eid(r.e), r.v>>, r.op)],
                      tx_data, i + 1)

\* The loop behind a check of every name of the batch.
RECURSIVE TransactLoopAtomic(_, _, _)
TransactLoopAtomic(sessions, tx_data, i) ==
    LET missing == {j \in i..Len(tx_data) : tx_data[j].a \notin DOMAIN sessions}
    IN  IF missing # {}
        THEN LET j == CHOOSE x \in missing : \A y \in missing : x <= y
             IN  [sessions |-> sessions,
                  ret |-> Err("not-found", <<"Attribute ", tx_data[j].a, " does not exist.">>)]
        ELSE IF i > Len(tx_data)
        THEN [sessions |-> sessions, ret |-> Ok]
        ELSE TransactLoopAtomic(
                 [sessions EXCEPT ![tx_data[i].a] =
                     SessionUpdate(@, <<Eid(tx_data[i].e), tx_data[i].v>>, tx_data[i].op)],
                 tx_data, i + 1)

\* The for loop of transact, from record i on.
RECURSIVE TransactLoop(_, _, _)
TransactLoop(sessions, tx_data, i) ==
    IF i > Len(tx_data)
    THEN [sessions |-> sessions, ret |-> Ok]
    ELSE LET r == tx_data[i]
         IN  IF r.a \notin DOMAIN sessions
             THEN [sessions |-> sessions, ret |-> Err("not-found", <<"Attribute ", r.a, " does not exist.">>)]
             ELSE TransactLoop(
                      [sessions EXCEPT ![r.a] = SessionUpdate(@, <<Eid(r.e), r.v>>, r.op)],
                      tx_data, i + 1)

\* The size of what the inputs of the Domain hold: the buffered updates and
\* the net diffs of what was sent.
RECURSIVE SumOver(_, _)
SumOver(f, S) ==
    IF S = {} THEN 0
    ELSE LET x == CHOOSE y \in S : TRUE IN f[x] + SumOver(f, S \ {x})

Abs(i) == IF i < 0 THEN -i ELSE i

Weight(sent) == SumOver([u \in sent |-> Abs(u.diff)], sent)

Buffered(sessions) ==
    SumOver([n \in DOMAIN sessions |-> Len(sessions[n].buffer)], DOMAIN sessions)

Held(sessions) ==
    Buffered(sessions)
    + SumOver([n \in DOMAIN scope |->
                  IF scope[n].kind = "input" THEN Weight(scope[n].sent) ELSE 0],
              DOMAIN scope)

\* The batches that fit in what the inputs may still hold.
Fitting ==
    LET room == MaxUpdates - Held(input_sessions)
    IN  {b \in Batches : Len(b) <= room}

\* transact that also flushes every input at the clock.
TransactFlushing(tx_data) ==
    LET done == TransactLoop(input_sessions, tx_data, 1)
        at(n) == SessionAdvanceTo(done.sessions[n], now_at)
    IN  /\ op' = "transact"
        /\ tx' = tx_data
        /\ adv' = <<>>
        /\ input_sessions' = [n \in DOMAIN done.sessions |-> FlushSession(at(n))]
        /\ scope' = [n \in DOMAIN scope |->
                         IF n \in DOMAIN done.sessions
                         THEN FlushCollection(at(n), scope[n])
                         ELSE scope[n]]
        /\ ret' = done.ret
        /\ UNCHANGED <<now_at, forward, reverse>>

Transact(tx_data) ==
    LET done == TransactLoop(input_sessions, tx_data, 1)
    IN  /\ op' = "transact"
        /\ tx' = tx_data
        /\ adv' = <<>>
        /\ input_sessions' = done.sessions
        /\ ret' = done.ret
        /\ UNCHANGED <<now_at, forward, reverse, scope>>

\* close_input that drops the attribute's indices with its input.
CloseInputForgets(name) ==
    /\ op' = "close_input"
    /\ tx' = <<>>
    /\ adv' = <<>>
    /\ IF name \notin DOMAIN input_sessions
       THEN /\ ret' = Err("not-found", <<"Input ", name, " does not exist.">>)
            /\ UNCHANGED domain
       ELSE /\ input_sessions' = Remove(input_sessions, name)
            /\ forward' = Remove(forward, name)
            /\ reverse' = Remove(reverse, name)
            /\ scope' = [scope EXCEPT ![name] = CloseCollection(input_sessions[name], @)]
            /\ ret' = Ok
            /\ UNCHANGED now_at

CloseInput(name) ==
    /\ op' = "close_input"
    /\ tx' = <<>>
    /\ adv' = <<>>
    /\ IF name \notin DOMAIN input_sessions
       THEN /\ ret' = Err("not-found", <<"Input ", name, " does not exist.">>)
            /\ UNCHANGED domain
       ELSE /\ input_sessions' = Remove(input_sessions, name)
            /\ scope' = [scope EXCEPT ![name] = CloseCollection(input_sessions[name], @)]
            /\ ret' = Ok
            /\ UNCHANGED <<now_at, forward, reverse>>

\* The assertion left out, and the assertion off by one.
RewindsUnchecked(next) == FALSE
RewindsByTwo(next) == ~(now_at <= next + 1)

\* assert!(self.now_at.less_equal(&next)) fails
Rewinds(next) == ~(now_at <= next)

\* advance_to that advances the traces of the attributes with a live input
\* only.
AdvanceToLiveTraces(next, trace_next) ==
    /\ op' = "advance_to"
    /\ tx' = <<>>
    /\ adv' = <<now_at, trace_next # None>>
    /\ IF Rewinds(next)
       THEN /\ ret' = Panic
            /\ UNCHANGED domain
       ELSE /\ ret' = Ok
            /\ IF now_at # next
               THEN /\ now_at' = next
                    /\ input_sessions' =
                           [n \in DOMAIN input_sessions |->
                               FlushSession(SessionAdvanceTo(input_sessions[n], next))]
                    /\ scope' =
                           [n \in DOMAIN scope |->
                               IF n \in DOMAIN input_sessions
                               THEN FlushCollection(
                                        SessionAdvanceTo(input_sessions[n], next), scope[n])
                               ELSE scope[n]]
                    /\ IF trace_next # None
                       THEN /\ forward' = [n \in DOMAIN forward |->
                                              IF n \in DOMAIN input_sessions
                                              THEN AdvanceBy(forward[n], trace_next)
                                              ELSE forward[n]]
                            /\ reverse' = [n \in DOMAIN reverse |->
                                              IF n \in DOMAIN input_sessions
                                              THEN AdvanceBy(reverse[n], trace_next)
                                              ELSE reverse[n]]
                       ELSE UNCHANGED <<forward, reverse>>
               ELSE UNCHANGED domain

\* advance_to without the comparison of now_at and next.
AdvanceToAlways(next, trace_next) ==
    /\ op' = "advance_to"
    /\ tx' = <<>>
    /\ adv' = <<now_at, trace_next # None>>
    /\ IF Rewinds(next)
       THEN /\ ret' = Panic
            /\ UNCHANGED domain
       ELSE /\ ret' = Ok
            /\ now_at' = next
            /\ input_sessions' =
                   [n \in DOMAIN input_sessions |->
                       FlushSession(SessionAdvanceTo(input_sessions[n], next))]
            /\ scope' =
                   [n \in DOMAIN scope |->
                       IF n \in DOMAIN input_sessions
                       THEN FlushCollection(
                                SessionAdvanceTo(input_sessions[n], next), scope[n])
                       ELSE scope[n]]
            /\ IF trace_next # None
               THEN /\ forward' = [n \in DOMAIN forward |->
                                      AdvanceBy(forward[n], trace_next)]
                    /\ reverse' = [n \in DOMAIN reverse |->
                                      AdvanceBy(reverse[n], trace_next)]
               ELSE UNCHANGED <<forward, reverse>>

\* advance_to whose traces follow the clock when it is given no trace_next.
AdvanceToFollowing(next, trace_next) ==
    /\ op' = "advance_to"
    /\ tx' = <<>>
    /\ adv' = <<now_at, trace_next # None>>
    /\ IF Rewinds(next)
       THEN /\ ret' = Panic
            /\ UNCHANGED domain
       ELSE /\ ret' = Ok
            /\ IF now_at # next
               THEN LET frontier == IF trace_next # None THEN trace_next ELSE next
                    IN  /\ now_at' = next
                        /\ input_sessions' =
                               [n \in DOMAIN input_sessions |->
                                   FlushSession(SessionAdvanceTo(input_sessions[n], next))]
                        /\ scope' =
                               [n \in DOMAIN scope |->
                                   IF n \in DOMAIN input_sessions
                                   THEN FlushCollection(
                                            SessionAdvanceTo(input_sessions[n], next), scope[n])
                                   ELSE scope[n]]
                        /\ forward' = [n \in DOMAIN forward |-> AdvanceBy(forward[n], frontier)]
                        /\ reverse' = [n \in DOMAIN reverse |-> AdvanceBy(reverse[n], frontier)]
               ELSE UNCHANGED domain

\* The assertions of handle.advance_to (the handle's epoch and the session's
\* time are at most next) hold whenever the Domain's does: both are at most
\* now_at.
AdvanceTo(next, trace_next) ==
    /\ op' = "advance_to"
    /\ tx' = <<>>
    /\ adv' = <<now_at, trace_next # None>>
    /\ IF Rewinds(next)
       THEN /\ ret' = Panic
            /\ UNCHANGED domain
       ELSE /\ ret' = Ok
            /\ IF now_at # next
               THEN /\ now_at' = next
                    /\ input_sessions' =
                           [n \in DOMAIN input_sessions |->
                               FlushSession(SessionAdvanceTo(input_sessions[n], next))]
                    /\ scope' =
                           [n \in DOMAIN scope |->
                               IF n \in DOMAIN input_sessions
                               THEN FlushCollection(
                                        SessionAdvanceTo(input_sessions[n], next), scope[n])
                               ELSE scope[n]]
                    /\ IF trace_next # None
                       THEN /\ forward' = [n \in DOMAIN forward |->
                                              AdvanceBy(forward[n], trace_next)]
                            /\ reverse' = [n \in DOMAIN reverse |->
                                              AdvanceBy(reverse[n], trace_next)]
                       ELSE UNCHANGED <<forward, reverse>>
               ELSE UNCHANGED domain

\* time that hands out the clock and puts it back to the minimum.
TimeTaking ==
    /\ op' = "time"
    /\ tx' = <<>>
    /\ adv' = <<>>
    /\ ret' = [Ok EXCEPT !.value = now_at]
    /\ now_at' = Minimum
    /\ UNCHANGED <<input_sessions, forward, reverse, scope>>

Time ==
    /\ op' = "time"
    /\ tx' = <<>>
    /\ adv' = <<>>
    /\ ret' = [Ok EXCEPT !.value = now_at]
    /\ UNCHANGED domain

\* ------------------------------------------------------ specification
\* A failed assertion ends the process: nothing runs after it.
Running == ret.category # "panic"

Next ==
    \/ \E name \in Names : Running /\ CreateAttribute(name)
    \/ \E name \in Names, name_idx \in Selectors : Running /\ CreateSource(name, name_idx)
    \/ \E tx_data \in Fitting : Running /\ Transact(tx_data)
    \/ \E name \in Names : Running /\ CloseInput(name)
    \/ \E next \in Times, trace_next \in Times \cup {None} : Running /\ AdvanceTo(next, trace_next)
    \/ Running /\ Time

Spec == Init /\ [][Next]_vars

\* The Domain with one attribute name, taken further: its input may hold up
\* to MaxHeld updates, and trace_next may be ahead of every next.
OneName == {"a"}

FittingOne ==
    LET room == MaxHeld - Held(input_sessions)
    IN  {b \in Batches : Len(b) <= room /\ \A j \in 1..Len(b) : b[j].a \in OneName}

NextOne ==
    \/ \E name \in OneName : Running /\ CreateAttribute(name)
    \/ \E name \in OneName, name_idx \in Selectors : Running /\ CreateSource(name, name_idx)
    \/ \E tx_data \in FittingOne : Running /\ Transact(tx_data)
    \/ \E name \in OneName : Running /\ CloseInput(name)
    \/ \E next \in Times, trace_next \in TraceNexts : Running /\ AdvanceTo(next, trace_next)
    \/ Running /\ Time

SpecOne == Init /\ [][NextOne]_vars

\* --------------------------------------------------- what an index shows
\* The updates of collection c that have reached its indices: those at times
\* the input's frontier has passed, all of them once the input is closed.
Trace(c) == {u \in c.sent : c.closed \/ u.time < c.epoch}

\* The accumulated multiplicity of data d at time t.
Accumulate(c, d, t) ==
    LET at == {u \in Trace(c) : u.data = d /\ u.time <= t}
    IN  SumOver([u \in at |-> u.diff], at)

\* The collection without distinct(): data is present whenever its
\* multiplicity is not 0.
Consolidated(c, t) == {d \in {u.data : u \in Trace(c)} : Accumulate(c, d, t) # 0}

\* tuples.distinct(): data is present once when its multiplicity is positive.
Distinct(c, t) == {d \in {u.data : u \in Trace(c)} : Accumulate(c, d, t) > 0}

\* CollectionIndex::index over tuples (key e) or over
\* tuples.map(|(e, v)| (v, e)) (key v), read at time t: key -> set of values.
Read(index, t) ==
    LET tuples == Distinct(scope[index.name], t)
        pairs == IF index.key = "e" THEN tuples ELSE {<<d[2], d[1]>> : d \in tuples}
    IN  [k \in {p[1] : p \in pairs} |-> {p[2] : p \in {q \in pairs : q[1] = k}}]

\* ------------------------------------------------------------- claims
\* The attributes that were created, those made by create_attribute and
\* since closed, and the names that have no live input for either reason.
Created(n) == n \in DOMAIN scope
Closed(n) == Created(n) /\ scope[n].kind = "input" /\ scope[n].closed
Live(n) == n \in DOMAIN input_sessions

Conflict(n) == Err("conflict", <<"An attribute of name ", n, " already exists.">>)
NotFoundAttribute(n) == Err("not-found", <<"Attribute ", n, " does not exist.">>)
NotFoundInput(n) == Err("not-found", <<"Input ", n, " does not exist.">>)

\* C1: create_attribute(n) or create_source(n, _) on a name that was created
\* before returns the conflict error and leaves the clock, the input
\* sessions with their buffers, the index tables and the dataflow as they were.
C1_ConflictNoMutation ==
    [][\A n \in Names :
          Created(n) =>
              /\ CreateAttribute(n) => (ret' = Conflict(n) /\ UNCHANGED domain)
              /\ \A i \in Selectors :
                     CreateSource(n, i) => (ret' = Conflict(n) /\ UNCHANGED domain)]_vars

C1_Witness ==
    /\ op = "create_source"
    /\ ret.category = "conflict"
    /\ \E n \in DOMAIN input_sessions : input_sessions[n].buffer # <<>>
    /\ \E n \in Names : Closed(n)

\* C2: the clock never decreases, time() returns it, and a call
\* advance_to(next, _) that returns leaves the clock at next.
C2_ClockMonotone ==
    [][/\ now_at <= now_at'
       /\ Time => ret'.value = now_at'
       /\ op' = "advance_to" =>
              \A next \in Times, trace_next \in TraceNexts :
                   (AdvanceTo(next, trace_next) /\ ret'.category = "ok") => now_at' = next]_vars

C2_Witness ==
    /\ op = "advance_to"
    /\ ret.category = "ok"
    /\ now_at = MaxTime
    /\ \E n \in DOMAIN input_sessions : input_sessions[n].time = MaxTime

\* C3: advance_to(next, trace_next) with next < now_at ends in the failed
\* assertion, whatever trace_next is, and has changed nothing by then.
C3_RewindPanics ==
    [][op' = "advance_to" =>
           \A next \in Times, trace_next \in TraceNexts :
               (next < now_at /\ AdvanceTo(next, trace_next)) =>
                   (ret' = Panic /\ UNCHANGED domain)]_vars

C3_Witness ==
    /\ op = "advance_to"
    /\ ret.category = "panic"
    /\ \E n \in DOMAIN input_sessions : input_sessions[n].buffer # <<>>
    /\ \E n \in DOMAIN forward : forward[n].since # Minimum

\* The names without a live input because they were never created or were
\* closed.
Dead(n) == ~Created(n) \/ Closed(n)

\* The position of the first record of batch whose attribute has no live
\* input, 0 when there is none.
FirstMissing(batch) ==
    LET missing == {i \in 1..Len(batch) : ~Live(batch[i].a)}
    IN  IF missing = {} THEN 0 ELSE CHOOSE i \in missing : \A j \in missing : i <= j

\* The records of batch[1..k] for attribute n, as ((Eid(e), v), op), in order.
RecordsFor(batch, n, k) ==
    LET mine == SelectSeq(SubSeq(batch, 1, k), LAMBDA r : r.a = n)
    IN  [j \in 1..Len(mine) |-> <<<<Eid(mine[j].e), mine[j].v>>, mine[j].op>>]

Payload(buffer) == [j \in 1..Len(buffer) |-> <<buffer[j].data, buffer[j].diff>>]

\* C4: transact of a batch that has records, all naming attributes never
\* created or closed, returns not-found; no session gets an update and the
\* index tables, the collections behind them and the clock stay as they were.
C4_DeadAttributesNotFound ==
    [][(op' = "transact" /\ tx' # <<>> /\ \A j \in 1..Len(tx') : Dead(tx'[j].a)) =>
          (ret'.category = "not-found" /\ UNCHANGED domain)]_vars

C4_Witness ==
    /\ op = "transact"
    /\ ret.category = "not-found"
    /\ tx # <<>>
    /\ \A j \in 1..Len(tx) : Dead(tx[j].a)
    /\ \E j \in 1..Len(tx) : Closed(tx[j].a) /\ scope[tx[j].a].sent # {}
    /\ \E n \in DOMAIN input_sessions : input_sessions[n].buffer = <<>>

\* C5: transact appends the records before the first one whose attribute has
\* no live input (all of them when there is none), each to the buffer of its
\* attribute, in batch order, as ((Eid(e), v), op); when there is such a
\* record it returns not-found naming that record's attribute, keeps what it
\* appended and appends nothing of the rest.
C5_PerRecordNotAtomic ==
    [][op' = "transact" =>
          LET i == FirstMissing(tx')
              k == IF i = 0 THEN Len(tx') ELSE i - 1
          IN  /\ ret' = IF i = 0 THEN Ok ELSE NotFoundAttribute(tx'[i].a)
              /\ DOMAIN input_sessions' = DOMAIN input_sessions
              /\ \A n \in DOMAIN input_sessions :
                     Payload(input_sessions'[n].buffer) =
                         Payload(input_sessions[n].buffer) \o RecordsFor(tx', n, k)
              /\ UNCHANGED <<now_at, forward, reverse, scope>>]_vars

C5_Witness ==
    /\ op = "transact"
    /\ ret.category = "not-found"
    /\ Len(tx) = MaxBatch
    /\ Live(tx[1].a)
    /\ ~Live(tx[MaxBatch].a)
    /\ input_sessions[tx[1].a].buffer # <<>>

\* What a reader of the indices of attribute n observes, at every time.
Shown(n) == [t \in Times |-> <<Read(forward[n], t), Read(reverse[n], t)>>]

\* A step leaves what the indices of n show as it was: it leaves the
\* collection and the handles as they were, or what is read from them.
SameShown(n) ==
    \/ scope[n]' = scope[n] /\ forward[n]' = forward[n] /\ reverse[n]' = reverse[n]
    \/ Shown(n)' = Shown(n)

\* C6 as stated: no call but advance_to changes what the indices of a
\* registered attribute show, so what a transact appended stays unseen in
\* every state up to the next advance_to.
C6_UnseenUntilAdvance ==
    [][\A n \in DOMAIN forward : op' # "advance_to" => SameShown(n)]_vars

\* C6: what the indices of a registered attribute show is changed by no
\* transact, create_attribute, create_source or time call and by no
\* close_input of another attribute: what a transact appended to n stays
\* unseen in every state up to the next advance_to or close_input(n).
C6_UnseenUntilAdvanceOrClose ==
    [][\A n \in DOMAIN forward :
          /\ op' \notin {"advance_to", "close_input"} => SameShown(n)
          /\ \A m \in Names \ {n} : CloseInput(m) => SameShown(n)]_vars

C6_Witness ==
    /\ op = "transact"
    /\ ret.category = "ok"
    /\ \E j \in 1..Len(tx) :
           /\ tx[j].op = 1
           /\ input_sessions[tx[j].a].buffer # <<>>
           /\ \A t \in Times : Distinct(scope[tx[j].a], t) = {}

\* The multiplicity of data d over a buffer and over all that was sent.
RECURSIVE NetBuffer(_, _)
NetBuffer(buffer, d) ==
    IF buffer = <<>> THEN 0
    ELSE (IF Head(buffer).data = d THEN Head(buffer).diff ELSE 0) + NetBuffer(Tail(buffer), d)

NetSent(sent, d) ==
    LET of == {u \in sent : u.data = d}
    IN  SumOver([u \in of |-> u.diff], of)

\* C7: advance_to(next, _) with next > now_at makes every update buffered in
\* a live input visible by next: each is stamped no later than next, at next
\* every tuple has the multiplicity of all that was transacted for it, and
\* the forward index maps e to the values v, the reverse index v to the
\* entities e, of the tuples (e, v) whose multiplicity is positive. One
\* insert (e, n, v) thus shows as forward[n]: e -> {v}, reverse[n]: v -> {e}.
C7_VisibleAfterAdvance ==
    [][op' = "advance_to" =>
           \A next \in Times, trace_next \in TraceNexts :
               (now_at < next /\ AdvanceTo(next, trace_next)) =>
                   \A n \in DOMAIN input_sessions :
                       LET buffer == input_sessions[n].buffer
                           data == {<<Eid(e), v>> : e \in Entities, v \in Values}
                           total(d) == NetBuffer(buffer, d) + NetSent(scope[n].sent, d)
                           present == {d \in data : total(d) > 0}
                       IN  /\ \A j \in 1..Len(buffer) : buffer[j].time <= next
                           /\ \A d \in data : Accumulate(scope[n], d, next)' = total(d)
                           /\ Read(forward[n], next)' =
                                  [e \in {d[1] : d \in present} |->
                                      {d[2] : d \in {x \in present : x[1] = e}}]
                           /\ Read(reverse[n], next)' =
                                  [v \in {d[2] : d \in present} |->
                                      {d[1] : d \in {x \in present : x[2] = v}}]]_vars

C7_Witness ==
    /\ op = "advance_to"
    /\ ret.category = "ok"
    /\ \E n \in DOMAIN input_sessions, e \in Entities, v \in Values :
           /\ scope[n].sent = {[data |-> <<Eid(e), v>>, time |-> Minimum, diff |-> 1]}
           /\ scope[n].epoch = now_at
           /\ Read(forward[n], now_at) = [k \in {Eid(e)} |-> {v}]
           /\ Read(reverse[n], now_at) = [k \in {v} |-> {Eid(e)}]

\* C8: close_input(n) on a live input returns Ok and removes that session
\* alone; the index tables, the clock, the other sessions and the other
\* collections stay as they were. On a name never created, made by
\* create_source or closed before it returns not-found and changes nothing.
C8_CloseInput ==
    [][\A n \in Names :
          CloseInput(n) =>
              /\ Live(n) =>
                     /\ ret' = Ok
                     /\ DOMAIN input_sessions' = DOMAIN input_sessions \ {n}
                     /\ \A m \in DOMAIN input_sessions' : input_sessions'[m] = input_sessions[m]
                     /\ \A m \in DOMAIN scope \ {n} : scope'[m] = scope[m]
                     /\ DOMAIN scope' = DOMAIN scope
                     /\ n \in DOMAIN forward' /\ n \in DOMAIN reverse'
                     /\ UNCHANGED <<now_at, forward, reverse>>
              /\ (~Created(n) \/ scope[n].kind = "source" \/ Closed(n)) =>
                     (ret' = NotFoundInput(n) /\ UNCHANGED domain)
              /\ ret'.category \in {"ok", "not-found"}]_vars

C8_Witness ==
    /\ op = "close_input"
    /\ ret.category = "ok"
    /\ \E n \in Names : Closed(n) /\ n \in DOMAIN forward /\ scope[n].sent # {}
    /\ \E n \in DOMAIN input_sessions : input_sessions[n].buffer # <<>>

\* C9: once close_input(n) has succeeded n has no input session again, every
\* create_attribute(n) and create_source(n, _) returns conflict and every
\* transact of a batch with a record naming n returns not-found.
C9_CloseIsTerminal ==
    [][\A n \in Names :
          Closed(n) =>
              /\ Closed(n)' /\ ~Live(n)'
              /\ CreateAttribute(n) => ret' = Conflict(n)
              /\ \A i \in Selectors : CreateSource(n, i) => ret' = Conflict(n)
              /\ (op' = "transact" /\ \E j \in 1..Len(tx') : tx'[j].a = n) =>
                     ret'.category = "not-found"]_vars

C9_Witness ==
    /\ op = "create_attribute"
    /\ ret.category = "conflict"
    /\ \E n \in Names : ret = Conflict(n) /\ Closed(n)
    /\ now_at = MaxTime
    /\ \E m \in DOMAIN input_sessions : input_sessions[m].time = MaxTime

\* C10: every live input session is at the clock, so that an update is
\* stamped with the clock at which it is transacted.
C10_SessionsAtClock ==
    \A n \in DOMAIN input_sessions :
        /\ input_sessions[n].time = now_at
        /\ \A j \in 1..Len(input_sessions[n].buffer) :
               input_sessions[n].buffer[j].time = now_at

\* The attributes made by create_source.
Source(n) == Created(n) /\ scope[n].kind = "source"

\* Every index of the Domain retains history from frontier on.
TracesAt(frontier) ==
    /\ \A n \in DOMAIN forward : forward[n].since = frontier
    /\ \A n \in DOMAIN reverse : reverse[n].since = frontier

\* Every live input writes at time: its session and its handle are there.
WritesAt(time) ==
    \A n \in DOMAIN input_sessions :
        input_sessions[n].time = time /\ scope[n].epoch = time

\* C11 as stated: every advance_to(next, Some(trace_next)) that returns
\* leaves every forward and every reverse index, of live, closed and source
\* attributes alike, retaining history from trace_next on, and with
\* trace_next <= next every live input writing at next.
C11_TraceNextReachesAll ==
    [][op' = "advance_to" =>
           \A next \in Times, trace_next \in TraceNexts \ {None} :
               (AdvanceTo(next, trace_next) /\ ret' = Ok) =>
                   /\ TracesAt(trace_next)'
                   /\ trace_next <= next => WritesAt(next)']_vars

\* C11: advance_to(next, Some(trace_next)) with next > now_at leaves every
\* forward and every reverse index, of live, closed and source attributes
\* alike, retaining history from trace_next on, and with trace_next <= next
\* every live input writing at next.
C11_TraceNextReachesAllOnAdvance ==
    [][op' = "advance_to" =>
           \A next \in Times, trace_next \in TraceNexts \ {None} :
               (now_at < next /\ AdvanceTo(next, trace_next)) =>
                   /\ ret' = Ok
                   /\ DOMAIN forward' = DOMAIN forward
                   /\ DOMAIN reverse' = DOMAIN reverse
                   /\ TracesAt(trace_next)'
                   /\ trace_next <= next => WritesAt(next)']_vars

C11_Witness ==
    /\ op = "advance_to"
    /\ ret = Ok
    /\ adv[1] < now_at /\ adv[2]
    /\ TracesAt(now_at)
    /\ WritesAt(now_at)
    /\ \E n \in DOMAIN input_sessions : TRUE
    /\ \E n \in DOMAIN forward : Source(n) \/ Closed(n)

\* The transpose of what an index shows: value -> the keys it is found under.
Transpose(shown) ==
    LET values == UNION {shown[k] : k \in DOMAIN shown}
    IN  [v \in values |-> {k \in DOMAIN shown : v \in shown[k]}]

\* C12: for every registered attribute, made by create_attribute or by
\* create_source, and at every time, the reverse index shows the transpose
\* of what the forward index shows: v -> e exactly when e -> v. Both show a
\* tuple once (the weight after distinct), so the weights agree.
C12_ReverseIsTranspose ==
    /\ DOMAIN reverse = DOMAIN forward
    /\ \A n \in DOMAIN forward, t \in Times :
           /\ Read(reverse[n], t) = Transpose(Read(forward[n], t))
           /\ Read(forward[n], t) = Transpose(Read(reverse[n], t))

C12_Witness ==
    /\ \E n \in DOMAIN forward :
           /\ Closed(n)
           /\ Read(forward[n], MaxTime) # EmptyMap
    /\ \E n \in DOMAIN forward :
           /\ Source(n)
           /\ \E e \in DOMAIN Read(forward[n], MaxTime) :
                  Cardinality(Read(forward[n], MaxTime)[e]) > 1
           /\ Cardinality(DOMAIN Read(reverse[n], MaxTime)) > 1

\* The tuples an attribute may hold, and whether its indices show one at t:
\* the forward index under its entity, the reverse index under its value.
Tuples == {u.data : u \in UNION {scope[n].sent : n \in DOMAIN scope}}
              \cup {<<Eid(e), v>> : e \in Entities, v \in Values}

ShownForward(n, d, t) ==
    LET shown == Read(forward[n], t)
    IN  d[1] \in DOMAIN shown /\ d[2] \in shown[d[1]]

ShownReverse(n, d, t) ==
    LET shown == Read(reverse[n], t)
    IN  d[2] \in DOMAIN shown /\ d[1] \in shown[d[2]]

\* C13: at every time both indices of an attribute show a tuple, once, when
\* the multiplicity of its updates accumulated up to that time is positive,
\* and do not show it otherwise (not when it is 0, not when it is negative,
\* and once when it is 2 or more: two inserts and a retract leave the tuple
\* shown once). An advance_to(next, _) with next > now_at leaves a tuple
\* shown at next exactly when all that was transacted for it nets to more than
\* 0: an insert and a retract transacted before it leave no trace of the tuple.
C13_Deduplicated ==
    /\ [](\A n \in DOMAIN forward, t \in Times, d \in Tuples :
              /\ ShownForward(n, d, t) <=> Accumulate(scope[n], d, t) > 0
              /\ ShownReverse(n, d, t) <=> Accumulate(scope[n], d, t) > 0)
    /\ [][op' = "advance_to" =>
              \A next \in Times, trace_next \in TraceNexts :
                  (now_at < next /\ AdvanceTo(next, trace_next)) =>
                      \A n \in DOMAIN input_sessions, d \in Tuples :
                          LET total == NetBuffer(input_sessions[n].buffer, d)
                                           + NetSent(scope[n].sent, d)
                          IN  /\ ShownForward(n, d, next)' <=> total > 0
                              /\ ShownReverse(n, d, next)' <=> total > 0]_vars

\* Two inserts of a tuple at one time and a retract of it at a later one have
\* reached the indices, which show it at both times.
C13_Witness ==
    \E n \in DOMAIN forward, d \in Tuples, t \in Times :
        /\ t < MaxTime
        /\ Accumulate(scope[n], d, t) = 2
        /\ Accumulate(scope[n], d, MaxTime) = 1
        /\ ShownForward(n, d, t) /\ ShownForward(n, d, MaxTime)
        /\ ShownReverse(n, d, t) /\ ShownReverse(n, d, MaxTime)

\* C14: create_source(n, _) on a name not registered returns Ok, registers
\* forward[n] and reverse[n] and leaves the input sessions as they were; from
\* then on n has no input session, every transact of a batch with a record
\* naming n returns not-found, and no call of the Domain changes the
\* collection of n, which holds what the stream delivered.
C14_SourceIsReadOnly ==
    [][\A n \in Names :
          /\ \A i \in Selectors :
                 (~Created(n) /\ CreateSource(n, i)) =>
                     /\ ret' = Ok
                     /\ n \in DOMAIN forward' /\ n \in DOMAIN reverse'
                     /\ input_sessions' = input_sessions
                     /\ scope'[n] = SourceCollection(i)
          /\ Source(n) =>
                 /\ Source(n)' /\ ~Live(n)'
                 /\ scope'[n] = scope[n]
                 /\ (op' = "transact" /\ \E j \in 1..Len(tx') : tx'[j].a = n) =>
                        (ret'.category = "not-found" /\ ~Live(n)')]_vars

C14_Witness ==
    /\ op = "transact"
    /\ tx # <<>>
    /\ Source(tx[1].a)
    /\ scope[tx[1].a].sent # {}
    /\ ret = NotFoundAttribute(tx[1].a)
    /\ \E m \in DOMAIN input_sessions : input_sessions[m].time = MaxTime

\* C15: advance_to(next, trace_next) with next = now_at returns and changes
\* nothing, whatever trace_next is: not the clock, not the time or the buffer
\* of an input session, not what reached the indices, not the frontier of the
\* history an index retains.
C15_EqualClockIsNoOp ==
    [][op' = "advance_to" =>
           \A next \in Times, trace_next \in TraceNexts :
               (next = now_at /\ AdvanceTo(next, trace_next)) =>
                   /\ ret' = Ok
                   /\ UNCHANGED domain
                   /\ \A n \in DOMAIN forward : SameShown(n)]_vars

\* Such a call, given a trace_next, has left an update buffered at a time
\* before the clock and an index retaining its full history.
C15_Witness ==
    /\ op = "advance_to"
    /\ ret = Ok
    /\ adv = <<now_at, TRUE>>
    /\ \E n \in DOMAIN input_sessions :
           /\ input_sessions[n].buffer # <<>>
           /\ input_sessions[n].time < now_at
           /\ forward[n].since = Minimum
           /\ reverse[n].since = Minimum

\* C16: advance_to(next, None) with next > now_at leaves every forward and
\* every reverse index retaining the history it retained, moves every live
\* input session to next with its buffer sent, and leaves the attributes
\* without a live input, closed or made by create_source, as they were.
C16_NoTraceNextKeepsHistory ==
    [][op' = "advance_to" =>
           \A next \in Times :
               (now_at < next /\ AdvanceTo(next, None)) =>
                   /\ ret' = Ok
                   /\ UNCHANGED <<forward, reverse>>
                   /\ DOMAIN input_sessions' = DOMAIN input_sessions
                   /\ DOMAIN scope' = DOMAIN scope
                   /\ \A n \in DOMAIN scope \ DOMAIN input_sessions : scope'[n] = scope[n]
                   /\ \A n \in DOMAIN input_sessions :
                          /\ input_sessions'[n] = [time |-> next, buffer |-> <<>>]
                          /\ scope'[n].epoch = next
                          /\ ~scope'[n].closed
                          /\ \A d \in Tuples :
                                 NetSent(scope'[n].sent, d) =
                                     NetSent(scope[n].sent, d)
                                         + NetBuffer(input_sessions[n].buffer, d)]_vars

C16_Witness ==
    /\ op = "advance_to"
    /\ ret = Ok
    /\ adv[1] < now_at /\ ~adv[2]
    /\ \E n \in DOMAIN forward :
           /\ Closed(n)
           /\ scope[n].sent # {}
           /\ scope[n].epoch < now_at
    /\ \E n \in DOMAIN input_sessions :
           /\ scope[n].sent # {}
           /\ scope[n].epoch = now_at
    /\ TracesAt(Minimum)

\* C17: the clock is changed by advance_to alone: create_attribute,
\* create_source, transact and close_input, returning Ok or an error, and
\* time leave it as it was; time returns it and changes nothing of the Domain.
C17_OnlyAdvanceMovesClock ==
    [][/\ op' \in {"create_attribute", "create_source", "transact", "close_input", "time"} =>
              now_at' = now_at
       /\ now_at' # now_at => op' = "advance_to"
       /\ Time => (ret' = [Ok EXCEPT !.value = now_at] /\ UNCHANGED domain)]_vars

\* time has returned a clock that was advanced, over a session with a
\* buffered update and an index whose frontier was moved.
C17_Witness ==
    /\ op = "time"
    /\ ret.value = now_at
    /\ now_at # Minimum
    /\ \E n \in DOMAIN input_sessions :
           input_sessions[n].buffer # <<>> /\ input_sessions[n].time = now_at
    /\ \E n \in DOMAIN forward : forward[n].since # Minimum

\* The positions of the records of datoms that selector i takes, and those
\* records in stream order with the discriminant projected away.
Taken(datoms, i) == {k \in 1..Len(datoms) : i = None \/ datoms[k].idx = i}

Projected(datoms, i) ==
    LET mine == SelectSeq(datoms, LAMBDA d : i = None \/ d.idx = i)
    IN  [k \in 1..Len(mine) |->
            [data |-> mine[k].data, time |-> mine[k].time, diff |-> mine[k].diff]]

\* C18: create_source(n, Some(i), stream) feeds n the records of the stream
\* whose discriminant is i, and no other, each with its (e, v), time and
\* diff and without the discriminant; create_source(n, None, stream) feeds it
\* every record. No record is taken by two different selectors Some(i) and
\* Some(j). All of it holds of every prefix of the stream.
C18_SelectorFilters ==
    [][\A n \in Names, i \in Selectors :
          (~Created(n) /\ CreateSource(n, i)) =>
              /\ scope'[n].sent = {Projected(Datoms, i)[k] : k \in 1..Len(Projected(Datoms, i))}
              /\ Cardinality(scope'[n].sent) = Cardinality(Taken(Datoms, i))
              /\ \A len \in 0..Len(Datoms) :
                     LET datoms == SubSeq(Datoms, 1, len)
                     IN  /\ SelectDatoms(datoms, i) = Projected(datoms, i)
                         /\ i = None => Len(SelectDatoms(datoms, i)) = len
                         /\ \A j \in Selectors \ {None, i} :
                                i # None => Taken(datoms, i) \cap Taken(datoms, j) = {}]_vars

\* Two attributes made from the stream with different selectors hold
\* records of their own, and one made with no selector would hold them all.
C18_Witness ==
    /\ op = "create_source"
    /\ ret = Ok
    /\ \E n, m \in DOMAIN scope, i, j \in Selectors \ {None} :
           /\ i # j
           /\ Source(n) /\ Source(m)
           /\ scope[n].sent = SourceCollection(i).sent
           /\ scope[m].sent = SourceCollection(j).sent
           /\ scope[n].sent # {} /\ scope[m].sent # {}
           /\ scope[n].sent \cap scope[m].sent = {}
           /\ scope[n].sent \cup scope[m].sent = SourceCollection(None).sent

\* C19: the forward and the reverse table always hold the same attribute
\* names, every name with a live input session is among them, and no step
\* takes a name out of either table.
C19_RegisteredNames ==
    /\ [](/\ DOMAIN forward = DOMAIN reverse
          /\ DOMAIN input_sessions \subseteq DOMAIN forward)
    /\ [][/\ DOMAIN forward \subseteq DOMAIN forward'
          /\ DOMAIN reverse \subseteq DOMAIN reverse']_vars

\* Every name is registered, after a close_input, and the live inputs are
\* fewer than the registered names.
C19_Witness ==
    /\ op = "close_input"
    /\ ret = Ok
    /\ DOMAIN forward = Names
    /\ DOMAIN reverse = Names
    /\ DOMAIN input_sessions # {}
    /\ DOMAIN input_sessions # Names
    /\ \E n \in Names : Closed(n) /\ forward[n].since # Minimum

\* C20: the frontier of the history an index retains is never ahead of the
\* clock, and no step of the Domain moves it back.
C20_RetentionBehindClock ==
    /\ [](\A n \in DOMAIN forward :
              forward[n].since <= now_at /\ reverse[n].since <= now_at)
    /\ [][\A n \in DOMAIN forward :
              /\ forward[n].since <= forward'[n].since
              /\ reverse[n].since <= reverse'[n].since]_vars

====
